---- MODULE Spec2Model ----
(***************************************************************************)
(* Resilient LLM invocation and audit layer of sr-automation.              *)
(*                                                                         *)
(*   src/src/utils.py         call_llm, _call_provider, the module-level   *)
(*                            counter _groq_consecutive_failures           *)
(*   src/src/audit_logger.py  AuditLogger (__init__, log, close)           *)
(*   src/src/triage.py, extraction.py, summarization.py                    *)
(*                            the stage runners triage_corpus, ...         *)
(*                                                                         *)
(* Spec: one sequential worker runs a stage; every article of the stage    *)
(* goes through call_llm.  call_llm is cut at its blocking operations (the *)
(* provider requests and the two sleeps), the places where a               *)
(* KeyboardInterrupt can arrive.                                           *)
(* LoggerSpec: any sequence of AuditLogger operations on one path.         *)
(***************************************************************************)
EXTENDS Integers, Sequences, FiniteSets, TLC

\* ------------------------------------------------------------------ bounds
\* articles handed to one stage run
NumArticles == 4
\* lines the audit log file can hold (LoggerSpec)
MaxLines == 3
\* close() calls on one AuditLogger (LoggerSpec)
MaxCloses == 3
\* AuditLogger objects constructed on the path (LoggerSpec)
MaxOpens == 2
MaxCalls == 3
MaxThreadCalls == 2

\* ------------------------------------------------------- program constants
\* utils.py:94
GROQ_SKIP_THRESHOLD == 3

Stages == {"triage", "extraction", "summarization"}

\* The stage callers: the three stage runners, each named by its stage, and
\* cross_validation._run_triage.
Callers == Stages \cup {"crossval"}

\* The stage a caller names in its call_llm calls.
StageOf(caller) == IF caller = "crossval" THEN "triage" ELSE caller

\* The parameters of call_llm (utils.py:97-104).
CallLlmParams ==
  {"prompt", "config", "stage", "audit_logger", "article_id", "decision_label"}

\* The keyword arguments a caller passes to call_llm.
KwArgs(caller) ==
  {"prompt", "config", "stage", "audit_logger", "article_id"}
    \cup (IF caller = "crossval" THEN {"use_cache", "force_together"} ELSE {})

\* What one requests.post + response decoding of _call_provider can end in.
\*   ok                a 2xx answer with choices[0].message.content
\*   rate_limit        status 429                      -> RateLimitError
\*   http_error        another 4xx/5xx, raise_for_status -> HTTPError
\*   timeout           requests.exceptions.Timeout
\*   connection_error  requests.exceptions.ConnectionError
\*   malformed_body    resp.json() / data["choices"][0] fails
\*                     (JSONDecodeError, KeyError, IndexError, TypeError)
Outcomes ==
  {"ok", "rate_limit", "http_error", "timeout", "connection_error", "malformed_body"}

\* The exception _call_provider raises for a failing outcome.
ExceptionOf(o) ==
  CASE o = "rate_limit"       -> "RateLimitError"
    [] o = "http_error"       -> "HTTPError"
    [] o = "timeout"          -> "Timeout"
    [] o = "connection_error" -> "ConnectionError"
    [] o = "malformed_body"   -> "MalformedBody"

\* Successful answers of a provider, as _call_provider returns them.
\* latency_ms is in thousandths of a millisecond (125 is 0.125 ms), a float
\* in the code; both values are exactly decidable by round(): 0.125 is a
\* binary fraction (an exact tie), 1.376 is no tie.  tokens are 0 when the
\* answer carries no "usage".
Responses ==
  { [text |-> "YES", tokens_input |-> 12, tokens_output |-> 3, latency_ms |-> 125],
    [text |-> "NO. The study lacks a working prototype.",
     tokens_input |-> 0, tokens_output |-> 0, latency_ms |-> 1376] }

NoResult == [text |-> "None", tokens_input |-> 0, tokens_output |-> 0, latency_ms |-> 0]

\* The request call_llm hands to _call_provider for the primary provider:
\* groq_url with config["model"]["model_name"].
GroqRequest == [url |-> "api.groq.com", model |-> "model_name"]

\* The secondary request sent with the primary's model identifier.
TogetherRequest_PrimaryModel == [url |-> "api.together.xyz", model |-> "model_name"]

\* The request for the secondary provider: together_url with
\* config["model"]["fallback_model"].
TogetherRequest == [url |-> "api.together.xyz", model |-> "fallback_model"]

\* ------------------------------------------------------------------- state
VARIABLES
  failures,   \* utils._groq_consecutive_failures
  pc,         \* where call_llm stands: idle (not running), groq1, sleep60,
              \* groq2, together, log, pace, return
  result,     \* call_llm's local result (NoResult is None)
  provider,   \* call_llm's local provider
  exc,        \* the exception the last operation raised to its caller, or none
  file,       \* AuditLogger._file: none (no logger yet), open, closed
  buffer,     \* lines written to _file and not yet flushed
  disk,       \* the lines of the audit log file
  stage,      \* the stage of the current run
  runPc,      \* the stage runner: idle, loop, done, raised
  idx,        \* the article the runner's loop is at (1..NumArticles+1)
  results,    \* the runner's results list
  written,    \* result lines the run appended to its output file
  call,       \* what the current (or last) call_llm did, for observation
  calls,      \* call_llm invocations started in this process
  closes,     \* AuditLogger.close() calls made on the current logger
  op,         \* the last AuditLogger operation: none, open, log, close
  opens,      \* AuditLogger objects constructed on the path so far
  only429,    \* every primary request of this process was answered 429 and
              \* no call was interrupted
  rlStreak,   \* length of the current run of primary RateLimitErrors
  response,   \* triage_article: the text call_llm returned, as characters
  parsed,     \* triage_article: what _parse_decision returned for it
  parserPc,   \* triage_article past call_llm: idle, called, returned
  threads     \* call_llm run by two threads at once: where each stands

vars ==
  <<failures, pc, result, provider, exc, file, buffer, disk, stage, runPc, idx,
    results, written, call, calls, closes, op, opens, only429, rlStreak,
    response, parsed, parserPc, threads>>

parserVars == <<response, parsed, parserPc>>
loggerVars == <<file, buffer, disk>>
runnerVars == <<stage, runPc, idx, results, written>>

\* The observation record of one call_llm invocation.
NewCall ==
  [ failures0 |-> failures,   \* the counter when the call started
    log0      |-> Len(disk),  \* audit lines when the call started
    groq      |-> <<>>,       \* outcomes of this call's primary requests
    together  |-> <<>>,       \* outcomes of this call's secondary requests
    sent      |-> <<>>,       \* the requests of this call, in order
    slept60   |-> 0,          \* time.sleep(60) done
    paced     |-> 0,          \* time.sleep(2.1) done
    outcome   |-> "running",  \* running, returned, raised, interrupted
    prev      |-> IF call.groq = <<>> THEN call.prev
                  ELSE IF call.groq[Len(call.groq)] = "ok" THEN "ok" ELSE "failed",
                              \* how the last primary request of the process
                              \* before this call ended: none, ok, failed
    cut       |-> call.cut \/ call.outcome = "interrupted" ]
                              \* an earlier call of the process was interrupted

\* The threads that call call_llm at the same time.
Workers == {"t1", "t2"}

\* A thread outside call_llm: pc is its position, loaded the counter value
\* an increment in progress has read, ncalls the calls it has started.
IdleThread == [pc |-> "idle", loaded |-> 0, ncalls |-> 0]

\* No _parse_decision result yet.
NoParse == [decision |-> "None", confidence |-> 0, justification |-> <<>>]

NoCall ==
  [ failures0 |-> 0, log0 |-> 0, groq |-> <<>>, together |-> <<>>, sent |-> <<>>,
    slept60 |-> 0, paced |-> 0, outcome |-> "none", prev |-> "none", cut |-> FALSE ]

Init ==
  /\ failures = 0
  /\ pc = "idle"
  /\ result = NoResult
  /\ provider = "groq"
  /\ exc = "none"
  /\ file = "none"
  /\ buffer = <<>>
  /\ disk = <<>>
  /\ stage = "triage"
  /\ runPc = "idle"
  /\ idx = 1
  /\ results = <<>>
  /\ written = 0
  /\ call = NoCall
  /\ calls = 0
  /\ closes = 0
  /\ op = "none"
  /\ opens = 0
  /\ only429 = TRUE
  /\ rlStreak = 0
  /\ response = <<>>
  /\ parsed = NoParse
  /\ parserPc = "idle"
  /\ threads = [w \in Workers |-> IdleThread]

\* ------------------------------------------------------------- AuditLogger
\* round(latency_ms, 2) on thousandths: to the nearest hundredth, an exact
\* tie to the even hundredth (Python's round).
Round2(x) ==
  LET q == x \div 10
      r == x % 10
  IN  IF r < 5 THEN 10 * q
      ELSE IF r > 5 THEN 10 * (q + 1)
      ELSE IF q % 2 = 0 THEN 10 * q ELSE 10 * (q + 1)

\* AuditLogger.log storing latency_ms as it comes, without round(.., 2).
AuditRecord_NoRound(module, article_id, prov, res) ==
  [ module       |-> module,
    article_id   |-> article_id,
    decision     |-> res.text,
    provider     |-> prov,
    tokens_in    |-> res.tokens_input,
    tokens_out   |-> res.tokens_output,
    latency_ms   |-> res.latency_ms,
    raw_response |-> res.text ]

\* The record AuditLogger.log builds from call_llm's arguments.
AuditRecord(module, article_id, prov, res) ==
  [ module       |-> module,
    article_id   |-> article_id,
    decision     |-> res.text,
    provider     |-> prov,
    tokens_in    |-> res.tokens_input,
    tokens_out   |-> res.tokens_output,
    latency_ms   |-> Round2(res.latency_ms),
    raw_response |-> res.text ]

\* AuditLogger.__init__ opening with mode "w": the file is truncated.
AuditOpen_Truncate ==
  /\ file' = "open"
  /\ buffer' = <<>>
  /\ disk' = <<>>
  /\ closes' = 0
  /\ op' = "open"
  /\ opens' = opens + 1

\* AuditLogger.__init__: open(output_path, "a"): a new handle with an empty
\* buffer on the same file, whose lines stay.
AuditOpen ==
  /\ file' = "open"
  /\ buffer' = <<>>
  /\ disk' = disk
  /\ closes' = 0
  /\ op' = "open"
  /\ opens' = opens + 1

\* AuditLogger.log without self._file.flush(): the line stays in the buffer.
AuditLog_NoFlush(rec) ==
  /\ file' = file
  /\ disk' = disk
  /\ buffer' = Append(buffer, rec)
  /\ closes' = closes
  /\ op' = "log"
  /\ opens' = opens

\* AuditLogger.log on an open handle: write one line, then flush.  json.dumps
\* escapes line breaks, so a record is one line of the file.
AuditLog(rec) ==
  /\ file' = file
  /\ disk' = disk \o Append(buffer, rec)
  /\ buffer' = <<>>
  /\ closes' = closes
  /\ op' = "log"
  /\ opens' = opens

\* AuditLogger.close without its guard: flush() on a closed handle raises
\* ValueError.
AuditClose_Unguarded(e) ==
  /\ IF file = "open"
       THEN /\ disk' = disk \o buffer
            /\ buffer' = <<>>
            /\ file' = "closed"
            /\ exc' = e
       ELSE /\ UNCHANGED loggerVars
            /\ exc' = "ValueError"
  /\ closes' = closes + 1
  /\ op' = "close"
  /\ opens' = opens

\* AuditLogger.close: flush and close an open handle, nothing otherwise; it
\* raises nothing, so the caller goes on with e (the exception it is
\* propagating, or none).
AuditClose(e) ==
  /\ IF file = "open"
       THEN /\ disk' = disk \o buffer
            /\ buffer' = <<>>
            /\ file' = "closed"
       ELSE UNCHANGED loggerVars
  /\ exc' = e
  /\ closes' = closes + 1
  /\ op' = "close"
  /\ opens' = opens

\* ------------------------------------------------------------ stage runner
\* The dict triage_article / extract_data / summarize_article builds from
\* call_llm's response.
StageResult(article_id, res, prov) ==
  [ article_id  |-> article_id,
    text        |-> res.text,
    tokens_used |-> res.tokens_input + res.tokens_output,
    latency_ms  |-> res.latency_ms,
    provider    |-> prov ]

\* An exception e leaves the article loop: no handler catches it (the only
\* except clause is KeyboardInterrupt), finally closes the logger and the
\* exception goes on to the runner's caller; the results list is not returned.
RunnerRaise(e) ==
  /\ AuditClose(e)
  /\ runPc' = "raised"
  /\ UNCHANGED <<stage, idx, results, written>>

\* The interrupted runner without its finally clause.
RunnerInterrupted_NoClose ==
  /\ UNCHANGED <<loggerVars, closes, op, opens>>
  /\ exc' = "none"
  /\ runPc' = "interrupted"
  /\ UNCHANGED <<stage, idx, results, written>>

\* A KeyboardInterrupt leaves the article loop: the except clause logs a
\* warning, finally closes the logger and the runner returns its results.
RunnerInterrupted ==
  /\ AuditClose("none")
  /\ runPc' = "interrupted"
  /\ UNCHANGED <<stage, idx, results, written>>

\* AuditLogger() before the loop: triage_corpus, extract_corpus,
\* summarize_corpus each open the default path.
StartRun(s) ==
  /\ UNCHANGED <<parserVars, threads>>
  /\ runPc = "idle"
  /\ AuditOpen
  /\ stage' = s
  /\ runPc' = "loop"
  /\ idx' = 1
  /\ results' = <<>>
  /\ written' = 0
  /\ exc' = "none"
  /\ UNCHANGED <<failures, pc, result, provider, call, calls, only429, rlStreak>>

\* call_llm without the skip decision: the primary is always tried.
SkipGroq_Never == FALSE

\* The skip decision with > in place of >=.
SkipGroq_OffByOne == failures > GROQ_SKIP_THRESHOLD

\* utils.py:124, the skip decision.
SkipGroq == failures >= GROQ_SKIP_THRESHOLD

\* The loop takes the next article and enters call_llm up to its first
\* blocking operation: the primary request, or the secondary one when the
\* primary is skipped.
NextArticle ==
  /\ UNCHANGED <<parserVars, threads>>
  /\ runPc = "loop"
  /\ pc = "idle"
  /\ idx <= NumArticles
  /\ KwArgs(stage) \subseteq CallLlmParams
  /\ pc' = IF SkipGroq THEN "together" ELSE "groq1"
  /\ result' = NoResult
  /\ provider' = "groq"
  /\ call' = NewCall
  /\ calls' = calls + 1
  /\ UNCHANGED <<failures, exc, loggerVars, runnerVars, closes, op, opens, only429, rlStreak>>

\* The loop takes the next article and calls call_llm with a keyword that is
\* no parameter of call_llm: the call raises TypeError before the body runs.
CallRejected ==
  /\ UNCHANGED <<parserVars, threads>>
  /\ runPc = "loop"
  /\ pc = "idle"
  /\ idx <= NumArticles
  /\ ~(KwArgs(stage) \subseteq CallLlmParams)
  /\ RunnerRaise("TypeError")
  /\ UNCHANGED <<failures, pc, result, provider, call, calls, only429, rlStreak>>

\* extract_corpus / summarize_corpus: the article is not in the corpus,
\* a warning is logged and the loop continues.
SkipMissing ==
  /\ UNCHANGED <<parserVars, threads>>
  /\ runPc = "loop"
  /\ pc = "idle"
  /\ stage \in {"extraction", "summarization"}
  /\ idx <= NumArticles
  /\ idx' = idx + 1
  /\ UNCHANGED <<failures, pc, result, provider, exc, loggerVars, stage, runPc,
                 results, written, call, calls, closes, op, opens, only429, rlStreak>>

\* The loop is exhausted: finally closes the logger, the runner returns.
LoopEnd ==
  /\ UNCHANGED <<parserVars, threads>>
  /\ runPc = "loop"
  /\ pc = "idle"
  /\ idx > NumArticles
  /\ AuditClose("none")
  /\ runPc' = "done"
  /\ UNCHANGED <<failures, pc, result, provider, stage, idx, results, written,
                 call, calls, only429, rlStreak>>

\* call_llm has returned: the runner appends the result and writes its line.
Store ==
  /\ UNCHANGED <<parserVars, threads>>
  /\ runPc = "loop"
  /\ pc = "return"
  /\ results' = Append(results, StageResult(idx, result, provider))
  /\ written' = written + 1
  /\ idx' = idx + 1
  /\ pc' = "idle"
  /\ result' = NoResult
  /\ provider' = "groq"
  /\ UNCHANGED <<failures, exc, loggerVars, stage, runPc, call, calls, closes, op,
                 opens, only429, rlStreak>>

\* ---------------------------------------------------------------- call_llm
\* Frame of a call_llm step that stays inside call_llm.
InCall == UNCHANGED <<exc, loggerVars, runnerVars, calls, closes, op, opens>>

\* call_llm raises e: the exception leaves the runner's loop too.
CallRaises(e) ==
  /\ pc' = "idle"
  /\ result' = NoResult
  /\ provider' = "groq"
  /\ RunnerRaise(e)
  /\ UNCHANGED calls

\* Ghost bookkeeping of one primary request answered with outcome o.
PrimaryAnswered(o, raised) ==
  /\ call' = [call EXCEPT !.groq = Append(@, o),
                          !.sent = Append(@, GroqRequest),
                          !.outcome = IF raised THEN "raised" ELSE @]
  /\ only429' = (only429 /\ o = "rate_limit")
  /\ rlStreak' = IF o = "rate_limit" THEN rlStreak + 1 ELSE 0

\* The first primary request with <= in place of < at line 139: a retry
\* (and its sleep) even when the counter has reached the threshold.
Groq1_RetryAtThreshold(o, r) ==
  /\ UNCHANGED <<parserVars, threads>>
  /\ runPc = "loop"
  /\ pc = "groq1"
  /\ PrimaryAnswered(o, o \in {"connection_error", "malformed_body"})
  /\ CASE o = "ok" ->
            /\ result' = r
            /\ provider' = "groq"
            /\ failures' = 0
            /\ pc' = "log"
            /\ InCall
       [] o = "rate_limit" ->
            /\ failures' = failures + 1
            /\ pc' = IF failures + 1 <= GROQ_SKIP_THRESHOLD THEN "sleep60" ELSE "together"
            /\ UNCHANGED <<result, provider>>
            /\ InCall
       [] o \in {"timeout", "http_error"} ->
            /\ pc' = "together"
            /\ UNCHANGED <<failures, result, provider>>
            /\ InCall
       [] OTHER ->
            /\ CallRaises(ExceptionOf(o))
            /\ UNCHANGED failures

\* The first primary request with the (Timeout, HTTPError) handler counting
\* the failure.
Groq1_CountsUnavailable(o, r) ==
  /\ UNCHANGED <<parserVars, threads>>
  /\ runPc = "loop"
  /\ pc = "groq1"
  /\ PrimaryAnswered(o, o \in {"connection_error", "malformed_body"})
  /\ CASE o = "ok" ->
            /\ result' = r
            /\ provider' = "groq"
            /\ failures' = 0
            /\ pc' = "log"
            /\ InCall
       [] o = "rate_limit" ->
            /\ failures' = failures + 1
            /\ pc' = IF failures + 1 < GROQ_SKIP_THRESHOLD THEN "sleep60" ELSE "together"
            /\ UNCHANGED <<result, provider>>
            /\ InCall
       [] o \in {"timeout", "http_error"} ->
            /\ pc' = "together"
            /\ failures' = failures + 1
            /\ UNCHANGED <<result, provider>>
            /\ InCall
       [] OTHER ->
            /\ CallRaises(ExceptionOf(o))
            /\ UNCHANGED failures

\* The first primary request without line 136: a success leaves the counter.
Groq1_NoReset(o, r) ==
  /\ UNCHANGED <<parserVars, threads>>
  /\ runPc = "loop"
  /\ pc = "groq1"
  /\ PrimaryAnswered(o, o \in {"connection_error", "malformed_body"})
  /\ CASE o = "ok" ->
            /\ result' = r
            /\ provider' = "groq"
            /\ failures' = failures
            /\ pc' = "log"
            /\ InCall
       [] o = "rate_limit" ->
            /\ failures' = failures + 1
            /\ pc' = IF failures + 1 < GROQ_SKIP_THRESHOLD THEN "sleep60" ELSE "together"
            /\ UNCHANGED <<result, provider>>
            /\ InCall
       [] o \in {"timeout", "http_error"} ->
            /\ pc' = "together"
            /\ UNCHANGED <<failures, result, provider>>
            /\ InCall
       [] OTHER ->
            /\ CallRaises(ExceptionOf(o))
            /\ UNCHANGED failures

\* utils.py:129-162, the first primary request and its except clauses:
\* RateLimitError, then (Timeout, HTTPError); anything else is not caught.
Groq1(o, r) ==
  /\ UNCHANGED <<parserVars, threads>>
  /\ runPc = "loop"
  /\ pc = "groq1"
  /\ PrimaryAnswered(o, o \in {"connection_error", "malformed_body"})
  /\ CASE o = "ok" ->
            /\ result' = r
            /\ provider' = "groq"
            /\ failures' = 0
            /\ pc' = "log"
            /\ InCall
       [] o = "rate_limit" ->
            /\ failures' = failures + 1
            /\ pc' = IF failures + 1 < GROQ_SKIP_THRESHOLD THEN "sleep60" ELSE "together"
            /\ UNCHANGED <<result, provider>>
            /\ InCall
       [] o \in {"timeout", "http_error"} ->
            /\ pc' = "together"
            /\ UNCHANGED <<failures, result, provider>>
            /\ InCall
       [] OTHER ->
            /\ CallRaises(ExceptionOf(o))
            /\ UNCHANGED failures

\* utils.py:141, time.sleep(60) before the retry.
Sleep60 ==
  /\ UNCHANGED <<parserVars, threads>>
  /\ runPc = "loop"
  /\ pc = "sleep60"
  /\ pc' = "groq2"
  /\ call' = [call EXCEPT !.slept60 = @ + 1]
  /\ UNCHANGED <<failures, result, provider, only429, rlStreak>>
  /\ InCall

\* The retry without line 149: a success leaves the counter as it is.
Groq2_NoReset(o, r) ==
  /\ UNCHANGED <<parserVars, threads>>
  /\ runPc = "loop"
  /\ pc = "groq2"
  /\ PrimaryAnswered(o, FALSE)
  /\ IF o = "ok"
       THEN /\ result' = r
            /\ provider' = "groq"
            /\ failures' = failures
            /\ pc' = "log"
       ELSE /\ failures' = failures + 1
            /\ pc' = "together"
            /\ UNCHANGED <<result, provider>>
  /\ InCall

\* The retry without line 152: a failure is not counted.
Groq2_NoCount(o, r) ==
  /\ UNCHANGED <<parserVars, threads>>
  /\ runPc = "loop"
  /\ pc = "groq2"
  /\ PrimaryAnswered(o, FALSE)
  /\ IF o = "ok"
       THEN /\ result' = r
            /\ provider' = "groq"
            /\ failures' = 0
            /\ pc' = "log"
       ELSE /\ failures' = failures
            /\ pc' = "together"
            /\ UNCHANGED <<result, provider>>
  /\ InCall

\* The retry repeated for as long as the primary answers 429.
Groq2_RetryAgain(o, r) ==
  /\ UNCHANGED <<parserVars, threads>>
  /\ runPc = "loop"
  /\ pc = "groq2"
  /\ PrimaryAnswered(o, FALSE)
  /\ IF o = "ok"
       THEN /\ result' = r
            /\ provider' = "groq"
            /\ failures' = 0
            /\ pc' = "log"
       ELSE /\ failures' = failures + 1
            /\ pc' = IF o = "rate_limit" THEN "groq2" ELSE "together"
            /\ UNCHANGED <<result, provider>>
  /\ InCall

\* utils.py:142-153, the retry: except Exception catches every failure.
Groq2(o, r) ==
  /\ UNCHANGED <<parserVars, threads>>
  /\ runPc = "loop"
  /\ pc = "groq2"
  /\ PrimaryAnswered(o, FALSE)
  /\ IF o = "ok"
       THEN /\ result' = r
            /\ provider' = "groq"
            /\ failures' = 0
            /\ pc' = "log"
       ELSE /\ failures' = failures + 1
            /\ pc' = "together"
            /\ UNCHANGED <<result, provider>>
  /\ InCall

\* The secondary request with a success clearing the counter.
Together_Resets(o, r) ==
  /\ UNCHANGED <<parserVars, threads>>
  /\ runPc = "loop"
  /\ pc = "together"
  /\ call' = [call EXCEPT !.together = Append(@, o),
                          !.sent = Append(@, TogetherRequest),
                          !.outcome = IF o = "ok" THEN @ ELSE "raised"]
  /\ UNCHANGED <<only429, rlStreak>>
  /\ IF o = "ok"
       THEN /\ result' = r
            /\ provider' = "together"
            /\ pc' = "log"
            /\ InCall
       ELSE CallRaises(ExceptionOf(o))
  /\ failures' = IF o = "ok" THEN 0 ELSE failures

\* utils.py:165-171, the secondary request: nothing is caught.
Together(o, r) ==
  /\ UNCHANGED <<parserVars, threads>>
  /\ runPc = "loop"
  /\ pc = "together"
  /\ call' = [call EXCEPT !.together = Append(@, o),
                          !.sent = Append(@, TogetherRequest),
                          !.outcome = IF o = "ok" THEN @ ELSE "raised"]
  /\ UNCHANGED <<only429, rlStreak>>
  /\ IF o = "ok"
       THEN /\ result' = r
            /\ provider' = "together"
            /\ pc' = "log"
            /\ InCall
       ELSE CallRaises(ExceptionOf(o))
  /\ UNCHANGED failures

\* call_llm pacing after every result, without the test of line 190.
Log_PaceAlways ==
  /\ UNCHANGED <<parserVars, threads>>
  /\ runPc = "loop"
  /\ pc = "log"
  /\ file = "open"
  /\ AuditLog(AuditRecord(StageOf(stage), idx, provider, result))
  /\ pc' = "pace"
  /\ UNCHANGED <<failures, result, provider, exc, runnerVars, call, calls, only429,
                 rlStreak>>

\* call_llm without its audit_logger.log(...) call.
Log_NoAudit ==
  /\ UNCHANGED <<parserVars, threads>>
  /\ runPc = "loop"
  /\ pc = "log"
  /\ pc' = IF provider = "groq" THEN "pace" ELSE "return"
  /\ call' = [call EXCEPT !.outcome = IF provider = "groq" THEN @ ELSE "returned"]
  /\ UNCHANGED <<failures, result, provider, exc, loggerVars, runnerVars, calls,
                 closes, op, opens, only429, rlStreak>>

\* utils.py:173-187, audit_logger.log(...) and result["provider"] = provider.
\* Writing to a closed handle raises ValueError.
Log ==
  /\ UNCHANGED <<parserVars, threads>>
  /\ runPc = "loop"
  /\ pc = "log"
  /\ UNCHANGED <<only429, rlStreak>>
  /\ IF file = "open"
       THEN /\ AuditLog(AuditRecord(StageOf(stage), idx, provider, result))
            /\ pc' = IF provider = "groq" THEN "pace" ELSE "return"
            /\ call' = [call EXCEPT !.outcome = IF provider = "groq" THEN @ ELSE "returned"]
            /\ UNCHANGED <<failures, result, provider, exc, runnerVars, calls>>
       ELSE /\ call' = [call EXCEPT !.outcome = "raised"]
            /\ CallRaises("ValueError")
            /\ UNCHANGED failures

\* utils.py:190-193, time.sleep(2.1) after a primary result, then return.
Pace ==
  /\ UNCHANGED <<parserVars, threads>>
  /\ runPc = "loop"
  /\ pc = "pace"
  /\ pc' = "return"
  /\ call' = [call EXCEPT !.paced = @ + 1, !.outcome = "returned"]
  /\ UNCHANGED <<failures, result, provider, only429, rlStreak>>
  /\ InCall

\* A KeyboardInterrupt arrives while the loop runs (inside call_llm: in a
\* request, in a sleep; or between two articles).  No except clause of
\* call_llm catches it (it is no Exception).
Interrupt ==
  /\ UNCHANGED <<parserVars, threads>>
  /\ runPc = "loop"
  /\ pc' = "idle"
  /\ call' = IF pc \in {"idle", "return"} THEN call
             ELSE [call EXCEPT !.outcome = "interrupted"]
  /\ only429' = (only429 /\ pc \in {"idle", "return"})
  /\ result' = NoResult
  /\ provider' = "groq"
  /\ RunnerInterrupted
  /\ UNCHANGED <<failures, calls, rlStreak>>

Next ==
  \/ \E s \in Callers : StartRun(s)
  \/ NextArticle
  \/ CallRejected
  \/ SkipMissing
  \/ \E o \in Outcomes, r \in Responses : Groq1(o, r)
  \/ Sleep60
  \/ \E o \in Outcomes, r \in Responses : Groq2(o, r)
  \/ \E o \in Outcomes, r \in Responses : Together(o, r)
  \/ Log
  \/ Pace
  \/ Store
  \/ Interrupt
  \/ LoopEnd

Spec == Init /\ [][Next]_vars

TypeOK ==
  /\ failures \in 0..GROQ_SKIP_THRESHOLD
  /\ pc \in {"idle", "groq1", "sleep60", "groq2", "together", "log", "pace", "return"}
  /\ result \in Responses \cup {NoResult}
  /\ provider \in {"groq", "together"}
  /\ file \in {"none", "open", "closed"}
  /\ runPc \in {"idle", "loop", "done", "interrupted", "raised"}
  /\ idx \in 1..(NumArticles + 1)
  /\ Len(results) = written
  /\ calls \in 0..NumArticles
  /\ closes \in 0..MaxCloses
  /\ op \in {"none", "open", "log", "close"}
  /\ opens \in 0..MaxOpens
  /\ Len(buffer) = 0
  /\ only429 \in BOOLEAN
  /\ rlStreak \in 0..GROQ_SKIP_THRESHOLD
  /\ parserPc \in {"idle", "called", "returned"}
  /\ parsed.decision \in {"None", "YES", "NO", "UNCERTAIN"}

\* ------------------------------------------------- AuditLogger on its own
\* Any sequence of AuditLogger(), log() and close() on one path, as a caller
\* other than the stage runners may issue them.
callVars ==
  <<failures, pc, result, provider, stage, runPc, idx, results, written, call,
    calls, only429, rlStreak>>

\* Records handed to log().
LoggerRecords ==
  { AuditRecord("triage", 1, p, r) : p \in {"groq", "together"}, r \in Responses }

\* AuditLogger(path): a new logger replaces the previous one.
LoggerOpen ==
  /\ UNCHANGED <<parserVars, threads>>
  /\ opens < MaxOpens
  /\ AuditOpen
  /\ exc' = "none"
  /\ UNCHANGED callVars

\* logger.log(...): _file.write on a closed handle raises ValueError.
LoggerLog(rec) ==
  /\ UNCHANGED <<parserVars, threads>>
  /\ file # "none"
  /\ Len(disk) < MaxLines
  /\ IF file = "open"
       THEN /\ AuditLog(rec)
            /\ exc' = "none"
       ELSE /\ exc' = "ValueError"
            /\ op' = "log"
            /\ UNCHANGED <<loggerVars, closes, opens>>
  /\ UNCHANGED callVars

\* logger.close()
LoggerClose ==
  /\ UNCHANGED <<parserVars, threads>>
  /\ file # "none"
  /\ closes < MaxCloses
  /\ AuditClose("none")
  /\ UNCHANGED callVars

LoggerNext ==
  \/ LoggerOpen
  \/ \E rec \in LoggerRecords : LoggerLog(rec)
  \/ LoggerClose

LoggerSpec == Init /\ [][LoggerNext]_vars

\* ------------------------------------------- several runs in one process
\* The counter is a module global: it lives on when a stage runner has
\* returned (after its last article or after a KeyboardInterrupt, which the
\* runner swallows) or has raised, and the next runner of the same process
\* starts from it.  Runs are bounded by MaxOpens loggers and MaxCalls calls.
Restart(s) ==
  /\ UNCHANGED <<parserVars, threads>>
  /\ runPc \in {"done", "interrupted", "raised"}
  /\ opens < MaxOpens
  /\ AuditOpen
  /\ stage' = s
  /\ runPc' = "loop"
  /\ idx' = 1
  /\ results' = <<>>
  /\ written' = 0
  /\ exc' = "none"
  /\ UNCHANGED <<failures, pc, result, provider, call, calls, only429, rlStreak>>

\* The next article of a run, while the process has calls left.
ProcessNextArticle ==
  /\ calls < MaxCalls
  /\ NextArticle

\* One answer suffices where only the counter is followed.
ProcessResponses == {r \in Responses : r.text = "YES"}

ProcessNext ==
  \/ StartRun("triage")
  \/ \E s \in {"triage", "extraction"} : Restart(s)
  \/ ProcessNextArticle
  \/ SkipMissing
  \/ \E o \in Outcomes, r \in ProcessResponses : Groq1(o, r)
  \/ Sleep60
  \/ \E o \in Outcomes, r \in ProcessResponses : Groq2(o, r)
  \/ \E o \in Outcomes, r \in ProcessResponses : Together(o, r)
  \/ Log
  \/ Pace
  \/ Store
  \/ Interrupt
  \/ LoopEnd

ProcessSpec == Init /\ [][ProcessNext]_vars

\* ------------------------------------------------ call_llm in two threads
\* call_llm holds no lock: the counter is a module global that each thread
\* reads and writes where its own call stands.  A thread can be descheduled
\* at every blocking operation (request, sleep) and between two bytecodes,
\* so the read and the write of "+= 1" are two steps, and so are the skip
\* decision and the request that follows it.  The audit append and the
\* pacing sleep, which do not touch the counter, are one closing step.
seqVars ==
  <<pc, result, provider, exc, loggerVars, runnerVars, call, calls, closes, op,
    opens, only429, rlStreak, parserVars>>

\* Thread w moves to position p.
Goto(w, p) == threads' = [threads EXCEPT ![w].pc = p]

\* utils.py:124-126: a call starts and takes the skip decision.
ThreadEnter(w) ==
  /\ threads[w].pc = "idle"
  /\ threads[w].ncalls < MaxThreadCalls
  /\ threads' = [threads EXCEPT ![w].pc = IF SkipGroq THEN "together" ELSE "send1",
                                ![w].ncalls = @ + 1]
  /\ UNCHANGED <<failures, seqVars>>

\* utils.py:129-133: the first primary request is sent.
ThreadSend1(w) ==
  /\ threads[w].pc = "send1"
  /\ Goto(w, "groq1")
  /\ UNCHANGED <<failures, seqVars>>

\* utils.py:129-138,160-162: the first primary request is answered; a 429
\* starts "+= 1" by reading the counter; an uncaught failure leaves call_llm.
ThreadAnswer1(w, o) ==
  /\ threads[w].pc = "groq1"
  /\ CASE o = "ok" ->
            /\ failures' = 0
            /\ Goto(w, "log")
       [] o = "rate_limit" ->
            /\ threads' = [threads EXCEPT ![w].pc = "store1", ![w].loaded = failures]
            /\ UNCHANGED failures
       [] o \in {"timeout", "http_error"} ->
            /\ Goto(w, "together")
            /\ UNCHANGED failures
       [] OTHER ->
            /\ Goto(w, "idle")
            /\ UNCHANGED failures
  /\ UNCHANGED seqVars

\* utils.py:138: "+= 1" writes the value it read, plus one.
ThreadStore1(w) ==
  /\ threads[w].pc = "store1"
  /\ failures' = threads[w].loaded + 1
  /\ Goto(w, "test")
  /\ UNCHANGED seqVars

\* utils.py:139: the counter is read again for the threshold test.
ThreadTest(w) ==
  /\ threads[w].pc = "test"
  /\ Goto(w, IF failures < GROQ_SKIP_THRESHOLD THEN "sleep60" ELSE "together")
  /\ UNCHANGED <<failures, seqVars>>

\* utils.py:141-146: the 60 s sleep ends and the retry is sent.
ThreadRetry(w) ==
  /\ threads[w].pc = "sleep60"
  /\ Goto(w, "groq2")
  /\ UNCHANGED <<failures, seqVars>>

\* utils.py:142-152: the retry is answered; any failure starts "+= 1".
ThreadAnswer2(w, o) ==
  /\ threads[w].pc = "groq2"
  /\ IF o = "ok"
       THEN /\ failures' = 0
            /\ Goto(w, "log")
       ELSE /\ threads' = [threads EXCEPT ![w].pc = "store2", ![w].loaded = failures]
            /\ UNCHANGED failures
  /\ UNCHANGED seqVars

\* utils.py:152: "+= 1" writes the value it read, plus one.
ThreadStore2(w) ==
  /\ threads[w].pc = "store2"
  /\ failures' = threads[w].loaded + 1
  /\ Goto(w, "together")
  /\ UNCHANGED seqVars

\* utils.py:165-171: the secondary request; a failure leaves call_llm.
ThreadTogether(w, o) ==
  /\ threads[w].pc = "together"
  /\ Goto(w, IF o = "ok" THEN "log" ELSE "idle")
  /\ UNCHANGED <<failures, seqVars>>

\* utils.py:173-193: audit append, pacing sleep and return.
ThreadReturn(w) ==
  /\ threads[w].pc = "log"
  /\ Goto(w, "idle")
  /\ UNCHANGED <<failures, seqVars>>

ThreadNext ==
  \E w \in Workers :
    \/ ThreadEnter(w)
    \/ ThreadSend1(w)
    \/ \E o \in Outcomes : ThreadAnswer1(w, o)
    \/ ThreadStore1(w)
    \/ ThreadTest(w)
    \/ ThreadRetry(w)
    \/ \E o \in Outcomes : ThreadAnswer2(w, o)
    \/ ThreadStore2(w)
    \/ \E o \in Outcomes : ThreadTogether(w, o)
    \/ ThreadReturn(w)

ThreadSpec == Init /\ [][ThreadNext]_vars

\* --------------------------------------------------------- _parse_decision
\* Strings are sequences of one-character strings.
LowerCase ==
  <<"a", "b", "c", "d", "e", "f", "g", "h", "i", "j", "k", "l", "m", "n", "o",
    "p", "q", "r", "s", "t", "u", "v", "w", "x", "y", "z">>
UpperCase ==
  <<"A", "B", "C", "D", "E", "F", "G", "H", "I", "J", "K", "L", "M", "N", "O",
    "P", "Q", "R", "S", "T", "U", "V", "W", "X", "Y", "Z">>
Digits == {"0", "1", "2", "3", "4", "5", "6", "7", "8", "9"}
WhiteSpace == {" ", "\t", "\n", "\r"}
Range(f) == {f[i] : i \in DOMAIN f}
Min(S) == CHOOSE x \in S : \A y \in S : x <= y
Max(S) == CHOOSE x \in S : \A y \in S : x >= y

YES == <<"Y", "E", "S">>
NO == <<"N", "O">>
UNCERTAIN == <<"U", "N", "C", "E", "R", "T", "A", "I", "N">>

\* str.upper()
UpperOf ==
  [c \in Range(LowerCase) |-> UpperCase[CHOOSE i \in DOMAIN LowerCase : LowerCase[i] = c]]
UpperChar(c) == IF c \in DOMAIN UpperOf THEN UpperOf[c] ELSE c
upper(s) == [i \in 1..Len(s) |-> UpperChar(s[i])]

\* str.strip()
strip(s) ==
  LET keep == {i \in 1..Len(s) : s[i] \notin WhiteSpace}
  IN  IF keep = {} THEN <<>> ELSE SubSeq(s, Min(keep), Max(keep))

\* s[:n]
Take(s, n) == SubSeq(s, 1, IF Len(s) < n THEN Len(s) ELSE n)

\* w occurs in s at position i (1-based).
MatchAt(s, w, i) == i + Len(w) - 1 <= Len(s) /\ SubSeq(s, i, i + Len(w) - 1) = w
Occurrences(s, w) == {i \in 1..Len(s) : MatchAt(s, w, i)}

\* w in s
Contains(s, w) == Occurrences(s, w) # {}

\* s.index(w), for a w that occurs in s
index(s, w) == Min(Occurrences(s, w))

\* \w of the re module, on the characters in use
WordChars == Range(LowerCase) \cup Range(UpperCase) \cup Digits \cup {"_"}
IsWordChar(c) == c \in WordChars

\* w (word characters at both ends) occurs at i between two \b
WordAt(s, w, i) ==
  /\ MatchAt(s, w, i)
  /\ i = 1 \/ ~IsWordChar(s[i - 1])
  /\ i + Len(w) - 1 = Len(s) \/ ~IsWordChar(s[i + Len(w)])

\* bool(re.search(r"\bW\b", s))
re_search(s, w) == \E i \in 1..Len(s) : WordAt(s, w, i)

\* The window of the prefix rule: clean[:10].
PrefixLen == 10

Undecided == [decision |-> "None", confidence |-> 0]
Verdict(d, c) == [decision |-> d, confidence |-> c]

\* The prefix rule testing NO before YES.
PrefixRule_NoFirst(clean) ==
  LET first_part == upper(Take(clean, PrefixLen))
  IN  IF Contains(first_part, NO) THEN Verdict("NO", 10)
      ELSE IF Contains(first_part, YES) THEN Verdict("YES", 10)
      ELSE Undecided

\* triage.py:31-37: the if and elif on first_part; confidence in tenths.
PrefixRule(clean) ==
  LET first_part == upper(Take(clean, PrefixLen))
  IN  IF Contains(first_part, YES) THEN Verdict("YES", 10)
      ELSE IF Contains(first_part, NO) THEN Verdict("NO", 10)
      ELSE Undecided

\* The scan with has_yes and has_no computed without the \b anchors.
FullScan_Substring(clean) ==
  LET has_yes == Contains(upper(clean), YES)
      has_no  == Contains(upper(clean), NO)
  IN  IF has_yes /\ ~has_no THEN Verdict("YES", 8)
      ELSE IF has_no /\ ~has_yes THEN Verdict("NO", 8)
      ELSE IF has_yes /\ has_no
        THEN Verdict(IF index(upper(clean), YES) < index(upper(clean), NO)
                       THEN "YES" ELSE "NO", 5)
      ELSE Verdict("UNCERTAIN", 5)

\* The scan with its last branch answering NO.
FullScan_DefaultNo(clean) ==
  LET has_yes == re_search(upper(clean), YES)
      has_no  == re_search(upper(clean), NO)
  IN  IF has_yes /\ ~has_no THEN Verdict("YES", 8)
      ELSE IF has_no /\ ~has_yes THEN Verdict("NO", 8)
      ELSE IF has_yes /\ has_no
        THEN Verdict(IF index(upper(clean), YES) < index(upper(clean), NO)
                       THEN "YES" ELSE "NO", 5)
      ELSE Verdict("NO", 5)

\* The scan with the confidence of a single token on its last branch too.
FullScan_UncertainHigh(clean) ==
  LET has_yes == re_search(upper(clean), YES)
      has_no  == re_search(upper(clean), NO)
  IN  IF has_yes /\ ~has_no THEN Verdict("YES", 8)
      ELSE IF has_no /\ ~has_yes THEN Verdict("NO", 8)
      ELSE IF has_yes /\ has_no
        THEN Verdict(IF index(upper(clean), YES) < index(upper(clean), NO)
                       THEN "YES" ELSE "NO", 5)
      ELSE Verdict("UNCERTAIN", 8)

\* triage.py:38-58, the else branch: has_yes and has_no by \b search,
\* yes_pos and no_pos by str.index, which finds the letters anywhere.
FullScan(clean) ==
  LET has_yes == re_search(upper(clean), YES)
      has_no  == re_search(upper(clean), NO)
  IN  IF has_yes /\ ~has_no THEN Verdict("YES", 8)
      ELSE IF has_no /\ ~has_yes THEN Verdict("NO", 8)
      ELSE IF has_yes /\ has_no
        THEN Verdict(IF index(upper(clean), YES) < index(upper(clean), NO)
                       THEN "YES" ELSE "NO", 5)
      ELSE Verdict("UNCERTAIN", 5)

\* The characters of the class [.,:\-\s] of line 61.
StripClass == {".", ",", ":", "-"} \cup WhiteSpace

\* triage.py:61: re.sub(r"^(YES|NO|UNCERTAIN)[.,:\-\s]*", "", clean,
\* flags=re.IGNORECASE).strip(); the alternatives are tried in order at
\* position 0 and nothing anchors the end of the token.
Justification(clean) ==
  LET u   == upper(clean)
      tok == IF MatchAt(u, YES, 1) THEN Len(YES)
             ELSE IF MatchAt(u, NO, 1) THEN Len(NO)
             ELSE IF MatchAt(u, UNCERTAIN, 1) THEN Len(UNCERTAIN)
             ELSE 0
      rest == {i \in (tok + 1)..Len(clean) : clean[i] \notin StripClass}
  IN  IF tok = 0 THEN strip(clean)
      ELSE IF rest = {} THEN <<>>
      ELSE strip(SubSeq(clean, Min(rest), Len(clean)))

\* triage.py:23-63
parse_decision(text) ==
  LET clean == strip(text)
      v     == IF PrefixRule(clean) # Undecided THEN PrefixRule(clean)
               ELSE FullScan(clean)
  IN  [decision |-> v.decision, confidence |-> v.confidence,
       justification |-> Justification(clean)]

\* Response texts: up to MaxTokens pieces, one after the other.
MaxTokens == 4

Tokens ==
  { <<" ", "Y", "E", "S">>,
    <<"N", "O">>,
    <<" ", "n", "o", ",">>,
    <<".", " ">>,
    <<"T", "h", "e", " ", "s", "t", "u", "d", "y", " ">>,
    <<"N", "o", "t", " ", "s", "u", "r", "e", ":">>,
    <<"l", "a", "c", "k", "s", " ", "a", " ", "w", "o", "r", "k", "i", "n", "g", " ", "p", "r", "o", "t", "o", "t", "y", "p", "e", ".">>,
    <<"U", "N", "C", "E", "R", "T", "A", "I", "N">> }

RECURSIVE Concat(_)
Concat(ts) == IF ts = <<>> THEN <<>> ELSE Head(ts) \o Concat(Tail(ts))

Texts == { Concat(ts) : ts \in UNION { [1..n -> Tokens] : n \in 0..MaxTokens } }

\* triage.py:78: call_llm returned a response with this text.
Receive(t) ==
  /\ parserPc = "idle"
  /\ response' = t
  /\ parserPc' = "called"
  /\ UNCHANGED <<parsed, callVars, exc, loggerVars, closes, op, opens, threads>>

\* triage.py:86: decision, confidence, justification = _parse_decision(...)
Parse ==
  /\ parserPc = "called"
  /\ parsed' = parse_decision(response)
  /\ parserPc' = "returned"
  /\ UNCHANGED <<response, callVars, exc, loggerVars, closes, op, opens, threads>>

ParserNext ==
  \/ parserPc = "idle" /\ \E t \in Texts : Receive(t)
  \/ Parse

ParserSpec == Init /\ [][ParserNext]_vars

\* ------------------------------------------------------------------ claims
Last(q) == q[Len(q)]
IsPrefix(p, q) == Len(p) <= Len(q) /\ SubSeq(q, 1, Len(p)) = p
CallEnded == call.outcome \in {"returned", "raised"}

\* C1 (as claimed): call_llm raises only when the secondary provider was
\* requested in that same call and failed; every primary failure is absorbed
\* and followed by a secondary request.
C1_RaisesOnlyAfterSecondary ==
  call.outcome = "raised" =>
    /\ Len(call.together) = 1
    /\ Last(call.together) # "ok"

\* C2: a call_llm that returns has appended exactly one audit record since it
\* started, whatever the number of provider requests; the record carries the
\* returned token counters and provider, and its latency_ms is a whole number
\* of hundredths nearest to the returned latency.
C2_OneRecordPerReturn ==
  pc = "return" =>
    /\ call.outcome = "returned"
    /\ Len(disk) = call.log0 + 1
    /\ Last(disk).tokens_in = result.tokens_input
    /\ Last(disk).tokens_out = result.tokens_output
    /\ Last(disk).provider = provider
    /\ Last(disk).latency_ms % 10 = 0
    /\ Last(disk).latency_ms - result.latency_ms \in -5..5

\* A call that returned after three provider requests: primary, retry, secondary.
C2_Witness ==
  /\ pc = "return"
  /\ Len(call.groq) = 2
  /\ Len(call.together) = 1
  /\ result.latency_ms % 10 # 0

\* C3 (as claimed): every call_llm that reached a provider and ended, by a
\* return or by a raise, has appended at least one audit record.
C3_AttemptAlwaysRecorded ==
  (CallEnded /\ Len(call.groq) + Len(call.together) >= 1) =>
    Len(disk) >= call.log0 + 1

\* C3 (amended): a call_llm that returns has reached a provider and appended
\* at least one audit record; a call_llm that raises has appended none.
C3_RecordedIffReturned ==
  /\ call.outcome = "returned" =>
       /\ Len(call.groq) + Len(call.together) >= 1
       /\ Len(disk) >= call.log0 + 1
  /\ call.outcome = "raised" => Len(disk) = call.log0

\* A call whose secondary request failed terminally, after an audited call.
C3_Witness ==
  /\ call.outcome = "raised"
  /\ Len(call.together) = 1
  /\ call.log0 >= 1

\* C4: a call_llm that starts with the counter at the threshold or above
\* sends nothing to the primary and goes to the secondary; no primary request
\* is pending once three consecutive primary rate-limit failures have happened.
C4_SkipAtThreshold ==
  /\ pc \in {"groq1", "sleep60", "groq2"} =>
       /\ call.failures0 < GROQ_SKIP_THRESHOLD
       /\ failures < GROQ_SKIP_THRESHOLD
       /\ rlStreak < GROQ_SKIP_THRESHOLD
  /\ (call.outcome # "none" /\ call.failures0 >= GROQ_SKIP_THRESHOLD) =>
       /\ call.groq = <<>>
       /\ call.slept60 = 0
       /\ call.outcome = "running" => pc \in {"together", "log"}
       /\ CallEnded => Len(call.together) = 1

\* The call after the third consecutive rate-limit failure has returned.
C4_Witness ==
  /\ call.failures0 = GROQ_SKIP_THRESHOLD
  /\ rlStreak = GROQ_SKIP_THRESHOLD
  /\ call.outcome = "returned"
  /\ provider = "together"

\* C5: a primary success, first attempt or retry, leaves the counter at 0
\* whatever it was, and the call_llm that follows a call whose last primary
\* request succeeded starts with a primary request.
C5_SuccessResets ==
  [][ /\ (pc \in {"groq1", "groq2"} /\ pc' = "log") => failures' = 0
      /\ (pc = "idle" /\ pc' # "idle" /\ call.groq # <<>> /\ Last(call.groq) = "ok") =>
           (pc' = "groq1" /\ failures' = 0) ]_vars

\* The primary has just succeeded on the retry of the second call, which
\* started with the counter at 0 because the first call's primary succeeded.
C5_Witness ==
  /\ pc = "log"
  /\ calls = 2
  /\ call.failures0 = 0
  /\ call.groq = <<"rate_limit", "ok">>
  /\ call.slept60 = 1
  /\ failures = 0

C7_AppendOnly ==
  [][ /\ IsPrefix(disk, disk')
      /\ op' = "open" => disk' = disk
      /\ (op' = "log" /\ exc' = "none") =>
           (Len(disk') = Len(disk) + 1 /\ Last(disk') \in LoggerRecords) ]_vars

\* A second AuditLogger on the path has appended to the lines of the first,
\* which was closed.
C7_Witness ==
  /\ opens = 2
  /\ op = "log"
  /\ exc = "none"
  /\ Len(disk) = MaxLines

\* C8: nothing is ever left in the logger's buffer between operations, and
\* after a log() that returned the file holds at least that line.
C8_FlushedOnReturn ==
  /\ buffer = <<>>
  /\ (op = "log" /\ exc = "none") => Len(disk) >= 1

\* Two records were appended and the handle is still open.
C8_Witness ==
  /\ op = "log"
  /\ exc = "none"
  /\ file = "open"
  /\ Len(disk) = 2

\* C9: a close() on a logger that was already closed raises nothing, leaves
\* the handle closed and leaves the file's lines unchanged.
C9_CloseIdempotent ==
  [][ (op' = "close" /\ closes >= 1 /\ closes' = closes + 1) =>
        /\ exc' = "none"
        /\ file = "closed"
        /\ file' = "closed"
        /\ disk' = disk
        /\ buffer' = buffer ]_vars

\* close() was called three times on a logger that had appended a line.
C9_Witness ==
  /\ closes = 3
  /\ file = "closed"
  /\ Len(disk) >= 1

\* C10 (as claimed): when call_llm raises the terminal failure of the
\* secondary provider for an article, the stage run goes on: it is still in
\* its loop, or it ended by returning its results.
C10_RunSurvivesTerminalFailure ==
  (call.outcome = "raised" /\ call.together # <<>>) =>
    runPc \in {"loop", "done", "interrupted"}

\* C11: a call_llm whose result came from the primary sleeps the 2.1 s pacing
\* interval exactly once, after its audit record is on file and before it
\* returns; a call_llm whose result came from the secondary never paces.
C11_PacingAfterPrimaryOnly ==
  /\ call.paced \in {0, 1}
  /\ pc = "pace" =>
       /\ provider = "groq"
       /\ call.paced = 0
       /\ Len(disk) = call.log0 + 1
  /\ pc = "return" =>
       /\ provider = "groq" => (call.paced = 1 /\ Len(disk) = call.log0 + 1)
       /\ provider = "together" => call.paced = 0
  /\ call.paced = 1 =>
       (call.groq # <<>> /\ Last(call.groq) = "ok" /\ call.together = <<>>)

\* A call has returned the primary's retry result after its pacing sleep.
C11_Witness ==
  /\ pc = "return"
  /\ provider = "groq"
  /\ call.paced = 1
  /\ call.groq = <<"rate_limit", "ok">>

\* C12: within one call_llm the secondary is requested at most once, only
\* when the primary was skipped or every primary request of the call failed,
\* always with the fallback model; a secondary failure ends the call with a
\* raise, no further request follows.
C12_SecondaryOnceWithFallbackModel ==
  /\ Len(call.together) <= 1
  /\ Len(call.sent) = Len(call.groq) + Len(call.together)
  /\ \A i \in 1..Len(call.sent) :
       /\ call.sent[i].url = "api.together.xyz" =>
            (i = Len(call.sent) /\ call.sent[i].model = "fallback_model")
       /\ call.sent[i].url = "api.groq.com" => call.sent[i].model = "model_name"
  /\ (pc = "together" \/ call.together # <<>>) =>
       /\ \A i \in 1..Len(call.groq) : call.groq[i] # "ok"
       /\ call.groq = <<>> => call.failures0 >= GROQ_SKIP_THRESHOLD
  /\ (call.together # <<>> /\ Last(call.together) # "ok") =>
       (call.outcome = "raised" /\ pc = "idle" /\ runPc = "raised")

\* The secondary failed after both primary requests of the call had failed.
C12_Witness ==
  /\ call.together = <<"http_error">>
  /\ Len(call.groq) = 2
  /\ call.outcome = "raised"

\* What the parser claims speak of, on the response as received.
Returned == parserPc = "returned"
Window(s) == upper(Take(s, PrefixLen))
TrimmedWindow(s) == upper(Take(strip(s), PrefixLen))
WindowFree(s) == ~Contains(TrimmedWindow(s), YES) /\ ~Contains(TrimmedWindow(s), NO)
Standalone(s, w) == \E i \in 1..Len(s) : WordAt(upper(s), w, i)
FirstStandalone(s, w) == Min({i \in 1..Len(s) : WordAt(upper(s), w, i)})

\* C13: a response whose first 10 characters contain YES in any case is
\* parsed as YES with confidence 1.0, whatever the rest of the text, a NO
\* earlier in the window included.
C13_PrefixYes ==
  (Returned /\ Contains(Window(response), YES)) =>
    (parsed.decision = "YES" /\ parsed.confidence = 10)

\* A response with NO and then YES inside its first 10 characters was parsed
\* as YES.
C13_Witness ==
  /\ Returned
  /\ Contains(Window(response), YES)
  /\ Contains(Window(response), NO)
  /\ index(Window(response), NO) < index(Window(response), YES)
  /\ parsed.decision = "YES"

\* C14 (as claimed): a response with a standalone NO somewhere and no
\* standalone YES is parsed as NO with confidence 0.8.
C14_StandaloneNoOnly ==
  (Returned /\ Standalone(response, NO) /\ ~Standalone(response, YES)) =>
    (parsed.decision = "NO" /\ parsed.confidence = 8)

\* C14 (amended): a response with a standalone NO somewhere and no standalone
\* YES, whose first 10 characters after trimming contain neither the letters
\* YES nor the letters NO, is parsed as NO with confidence 0.8.
C14_StandaloneNoOnlyPastWindow ==
  (/\ Returned
   /\ Standalone(response, NO)
   /\ ~Standalone(response, YES)
   /\ WindowFree(response)) =>
    (parsed.decision = "NO" /\ parsed.confidence = 8)

\* The only standalone token is a NO past the window, next to a YES that is
\* part of a longer word; the response was parsed as NO with 0.8.
C14_Witness ==
  /\ Returned
  /\ Standalone(response, NO)
  /\ ~Standalone(response, YES)
  /\ Contains(upper(response), YES)
  /\ WindowFree(response)
  /\ parsed.decision = "NO"
  /\ parsed.confidence = 8

\* C15 (as claimed, for the responses the prefix rule leaves undecided): a
\* response with both a standalone YES and a standalone NO is parsed as the
\* one of the two standalone tokens that comes first, with confidence 0.5.
C15_FirstStandaloneWins ==
  (/\ Returned
   /\ Standalone(response, YES)
   /\ Standalone(response, NO)
   /\ WindowFree(response)) =>
    /\ parsed.confidence = 5
    /\ parsed.decision =
         IF FirstStandalone(response, YES) < FirstStandalone(response, NO)
           THEN "YES" ELSE "NO"

\* C16 (as claimed): a response with neither a standalone YES nor a
\* standalone NO is parsed as UNCERTAIN with confidence 0.5.
C16_NeitherToken ==
  (Returned /\ ~Standalone(response, YES) /\ ~Standalone(response, NO)) =>
    (parsed.decision = "UNCERTAIN" /\ parsed.confidence = 5)

\* C16 (amended): a response with neither a standalone YES nor a standalone
\* NO, whose first 10 characters after trimming contain neither the letters
\* YES nor the letters NO, is parsed as UNCERTAIN with confidence 0.5.
C16_NeitherTokenPastWindow ==
  (/\ Returned
   /\ ~Standalone(response, YES)
   /\ ~Standalone(response, NO)
   /\ WindowFree(response)) =>
    (parsed.decision = "UNCERTAIN" /\ parsed.confidence = 5)

\* A response with the letters NO inside a word past the window and no
\* standalone token was parsed as UNCERTAIN with 0.5.
C16_Witness ==
  /\ Returned
  /\ ~Standalone(response, YES)
  /\ ~Standalone(response, NO)
  /\ Contains(upper(response), NO)
  /\ WindowFree(response)
  /\ parsed.decision = "UNCERTAIN"
  /\ parsed.confidence = 5

\* C17: _parse_decision returns for every text, the empty one included, one
\* decision of YES, NO, UNCERTAIN with a confidence of 1.0, 0.8 or 0.5; 1.0
\* comes only from the prefix rule, 0.8 only when exactly one of the two
\* standalone tokens occurs, and UNCERTAIN always carries 0.5.
C17_TotalFixedConstants ==
  /\ parserPc = "called" =>
       parse_decision(response).decision \in {"YES", "NO", "UNCERTAIN"}
  /\ Returned =>
       /\ parsed.decision \in {"YES", "NO", "UNCERTAIN"}
       /\ parsed.confidence \in {10, 8, 5}
       /\ parsed.confidence = 10 => ~WindowFree(response)
       /\ parsed.confidence = 8 =>
            (Standalone(response, YES) # Standalone(response, NO))
       /\ parsed.decision = "UNCERTAIN" => parsed.confidence = 5

\* The empty response was parsed as UNCERTAIN with 0.5.
C17_Witness ==
  /\ Returned
  /\ response = <<>>
  /\ parsed.decision = "UNCERTAIN"
  /\ parsed.confidence = 5

\* Punctuation and whitespace after a leading decision token.
Punctuation == {".", ",", ":", ";", "-", "!", "?"}

\* The justification C18 describes: the trimmed response without a leading
\* decision token and the punctuation and whitespace after it, the whole
\* trimmed response when it does not begin with such a token.
ClaimedJustification(s) ==
  LET c    == strip(s)
      u    == upper(c)
      tok  == IF WordAt(u, YES, 1) THEN Len(YES)
              ELSE IF WordAt(u, NO, 1) THEN Len(NO)
              ELSE IF WordAt(u, UNCERTAIN, 1) THEN Len(UNCERTAIN)
              ELSE 0
      rest == {i \in (tok + 1)..Len(c) : c[i] \notin Punctuation \cup WhiteSpace}
  IN  IF tok = 0 THEN c
      ELSE IF rest = {} THEN <<>>
      ELSE SubSeq(c, Min(rest), Len(c))

\* C18 (as claimed): the justification is the trimmed response without a
\* single leading decision token (any case) and the punctuation and
\* whitespace after it; a response that does not begin with such a token
\* keeps its whole text.
C18_JustificationStripsLeadingToken ==
  Returned => parsed.justification = ClaimedJustification(response)

\* How the most recent primary request of the process ended: none, ok, failed.
LastPrimary ==
  IF call.groq = <<>> THEN call.prev
  ELSE IF Last(call.groq) = "ok" THEN "ok" ELSE "failed"
Unavailable == {"http_error", "timeout", "connection_error"}

\* C21 (as claimed): a primary request that fails with an HTTP error status,
\* a timeout or a connection failure adds one to the counter, on the first
\* attempt as on the retry.
C21_UnavailableCounts ==
  [][ (Len(call'.groq) = Len(call.groq) + 1 /\ Last(call'.groq) \in Unavailable) =>
        failures' = failures + 1 ]_vars

\* C21 (amended): such a failure of the first attempt leaves the counter as
\* it was; on the retry a failure of any kind adds one.
C21_UnavailableCountsOnRetryOnly ==
  [][ /\ (call'.groq # call.groq /\ Len(call'.groq) = 1
            /\ call'.groq[1] \notin {"ok", "rate_limit"}) =>
           failures' = failures
      /\ (call'.groq # call.groq /\ Len(call'.groq) = 2
            /\ call'.groq[2] # "ok") =>
           failures' = failures + 1 ]_vars

\* With the counter at 2, a first attempt timed out: the counter is still 2
\* and the secondary request is next.
C21_Witness ==
  /\ pc = "together"
  /\ call.groq = <<"timeout">>
  /\ call.failures0 = 2
  /\ failures = 2

\* C22 (as claimed): after every call_llm the counter is 0 exactly when no
\* primary request was made yet or the most recent one succeeded, and positive
\* exactly when the most recent one failed.
C22_CounterReflectsLastPrimary ==
  CallEnded =>
    /\ failures = 0 <=> LastPrimary \in {"none", "ok"}
    /\ failures > 0 <=> LastPrimary = "failed"

\* C22 (amended): after every call_llm the counter is 0 when no primary
\* request was made yet or the most recent one succeeded, and a positive
\* counter means the most recent one failed; a counter of 0 after a failed
\* most recent request means that request was a first attempt that failed
\* with something other than a rate limit.
C22_CounterZeroAfterSuccess ==
  CallEnded =>
    /\ LastPrimary \in {"none", "ok"} => failures = 0
    /\ failures > 0 => LastPrimary = "failed"
    /\ (failures = 0 /\ LastPrimary = "failed") =>
         (Len(call.groq) = 1 /\ call.groq[1] \notin {"ok", "rate_limit"})

\* A call returned the secondary's result after its only primary request
\* failed with an HTTP error; the counter is 0.
C22_Witness ==
  /\ call.outcome = "returned"
  /\ call.groq = <<"http_error">>
  /\ failures = 0

\* C23: the audit logger of a run is closed on every exit of the article
\* loop (completion, KeyboardInterrupt, exception out of call_llm), with
\* nothing left unflushed; an interruption leaves the results list as it was
\* and the runner returns it without an exception.
C23_LoggerClosedOnEveryExit ==
  /\ [](runPc \in {"done", "interrupted", "raised"} =>
          (file = "closed" /\ buffer = <<>>))
  /\ [](runPc = "interrupted" => (exc = "none" /\ Len(results) = written))
  /\ [][ (runPc = "loop" /\ runPc' # "loop") =>
           (results' = results /\ closes' = closes + 1) ]_vars

\* A run was interrupted in the 60 s sleep of its second article: the logger
\* is closed and the result of the first article is kept.
C23_Witness ==
  /\ runPc = "interrupted"
  /\ file = "closed"
  /\ call.outcome = "interrupted"
  /\ call.groq = <<"rate_limit">>
  /\ call.slept60 = 0
  /\ Len(results) = 1

\* C24 (as claimed): with two call_llm running at once no update of the
\* counter is lost (every increment raises the counter by one), the counter
\* never exceeds the threshold, and no primary request is sent once the
\* counter has reached the threshold.
C24_ConcurrentCounterConsistent ==
  /\ [](failures <= GROQ_SKIP_THRESHOLD)
  /\ [][ \A w \in Workers :
           /\ (threads[w].pc \in {"store1", "store2"} /\ threads'[w].pc # threads[w].pc) =>
                failures' = failures + 1
           /\ (threads'[w].pc \in {"groq1", "groq2"} /\ threads'[w].pc # threads[w].pc) =>
                failures < GROQ_SKIP_THRESHOLD ]_vars

\* C25 (as claimed): every caller passes call_llm only arguments it accepts,
\* so no run ends on a TypeError and a run that ends on an exception has
\* entered call_llm.
C25_CallsEnterController ==
  /\ exc # "TypeError"
  /\ runPc = "raised" => calls > 0

\* C19: a RateLimitError on the first primary request adds one to the
\* counter; below the threshold the call sleeps 60 s once and retries once,
\* at the threshold it goes to the secondary without sleep or retry; a retry
\* success sets the counter to 0, a retry failure of any kind adds one more
\* and leads to the secondary.
C19_RateLimitRetry ==
  /\ [](/\ call.slept60 \in {0, 1}
        /\ Len(call.groq) <= 2
        /\ pc = "groq2" => (call.slept60 = 1 /\ call.groq = <<"rate_limit">>)
        /\ (Len(call.groq) = 2 \/ call.slept60 = 1) =>
             (call.groq[1] = "rate_limit" /\ call.failures0 + 1 < GROQ_SKIP_THRESHOLD))
  /\ [][ /\ (pc = "groq1" /\ call'.groq = <<"rate_limit">>) =>
              /\ failures' = failures + 1
              /\ pc' = IF failures' < GROQ_SKIP_THRESHOLD THEN "sleep60" ELSE "together"
              /\ call'.slept60 = 0
         /\ (pc = "sleep60" /\ call'.outcome = "running") =>
              (pc' \in {"sleep60", "groq2"} /\ call'.slept60 = IF pc' = "groq2" THEN 1 ELSE 0)
         /\ (pc = "groq2" /\ Len(call'.groq) = 2) =>
              IF Last(call'.groq) = "ok"
                THEN failures' = 0 /\ pc' = "log"
                ELSE failures' = failures + 1 /\ pc' = "together" ]_vars

\* The retry failed with a timeout after one 60 s sleep: the counter is at 2
\* and the secondary request is next.
C19_Witness ==
  /\ pc = "together"
  /\ call.groq = <<"rate_limit", "timeout">>
  /\ call.slept60 = 1
  /\ failures = 2

\* C20 (as claimed): after a first primary request that failed with an HTTP
\* error status, a timeout or a connection failure, the call goes to the
\* secondary at once: no sleep, no second primary request.
C20_UnavailableFallsBack ==
  (/\ call.groq # <<>>
   /\ call.groq[1] \in {"http_error", "timeout", "connection_error"}
   /\ call.outcome # "interrupted") =>
    /\ Len(call.groq) = 1
    /\ call.slept60 = 0
    /\ (pc = "together" \/ Len(call.together) = 1)

\* C26 (as claimed): the counter stays within 0..3 and is 0, 2 or 3 whenever
\* a call_llm has ended without being interrupted; from 0, two calls whose
\* primary requests are all answered 429 bring it to 3.
C26_BoundaryValues ==
  /\ failures \in 0..GROQ_SKIP_THRESHOLD
  /\ CallEnded => failures \in {0, 2, 3}
  /\ (CallEnded /\ call.failures0 = 0 /\ call.groq = <<"rate_limit", "rate_limit">>) =>
       failures = 2
  /\ (CallEnded /\ call.failures0 = 2 /\ call.groq = <<"rate_limit">>) =>
       failures = 3

\* C26 (amended): the counter stays within 0..3; it is 0, 2 or 3 whenever a
\* call_llm has ended and no call of the process so far was interrupted; from
\* 0, two calls whose primary requests are all answered 429 bring it to 3.
C26_BoundaryValuesUninterrupted ==
  /\ failures \in 0..GROQ_SKIP_THRESHOLD
  /\ (CallEnded /\ ~call.cut) => failures \in {0, 2, 3}
  /\ (CallEnded /\ call.failures0 = 0 /\ call.groq = <<"rate_limit", "rate_limit">>) =>
       failures = 2
  /\ (CallEnded /\ call.failures0 = 2 /\ call.groq = <<"rate_limit">>) =>
       failures = 3

\* After two calls answered 429 throughout, without any interruption, the
\* counter is at 3.
C26_Witness ==
  /\ CallEnded
  /\ ~call.cut
  /\ call.failures0 = 2
  /\ call.groq = <<"rate_limit">>
  /\ failures = 3
  /\ only429

\* C27: once the counter is at the threshold it stays there and no request
\* goes to the primary any more: every later call_llm of the process is
\* answered by the secondary, whatever the primary would answer.
C27_SkipIsAbsorbing ==
  /\ [](call.failures0 >= GROQ_SKIP_THRESHOLD =>
          /\ call.groq = <<>>
          /\ failures = call.failures0
          /\ pc \in {"log", "pace", "return"} => provider = "together"
          /\ pc # "pace")
  /\ [][ failures >= GROQ_SKIP_THRESHOLD =>
           (failures' = failures /\ (call'.groq = call.groq \/ call'.groq = <<>>)) ]_vars

\* The second call after the counter reached the threshold has returned the
\* secondary's result without a primary request.
C27_Witness ==
  /\ pc = "return"
  /\ provider = "together"
  /\ call.failures0 = GROQ_SKIP_THRESHOLD
  /\ call.groq = <<>>
  /\ call.prev = "failed"
  /\ calls = 4

\* C28: the secondary request never changes the counter, whether it succeeds
\* or fails, and a call_llm that skips the primary ends with the counter it
\* started with.
C28_SecondaryLeavesCounter ==
  /\ [][ call'.together # call.together => failures' = failures ]_vars
  /\ []((call.outcome # "none" /\ call.groq = <<>>
           /\ call.failures0 >= GROQ_SKIP_THRESHOLD) =>
          failures = call.failures0)

\* A call that skipped the primary has raised the secondary's failure; the
\* counter is where the call found it.
C28_Witness ==
  /\ call.outcome = "raised"
  /\ call.groq = <<>>
  /\ call.together = <<"timeout">>
  /\ failures = GROQ_SKIP_THRESHOLD

\* C29: within one stage run the audit records appended are at least the
\* result lines written and at most one more, at every moment, an
\* interrupted run included: the record of an article is on file before the
\* pacing sleep, before call_llm returns and before the result line.
C29_AuditAheadOfResults ==
  /\ written <= Len(disk)
  /\ Len(disk) <= written + 1
  /\ pc \in {"pace", "return"} => Len(disk) = written + 1
  /\ pc \in {"groq1", "sleep60", "groq2", "together", "log"} => Len(disk) = written

\* A run was interrupted after the audit record of its second article was
\* appended and before that article's result line was written.
C29_Witness ==
  /\ runPc = "interrupted"
  /\ written = 1
  /\ Len(disk) = 2

\* The steps call_llm has left at most from each of its positions.
Rank(p) ==
  CASE p = "groq1"    -> 6
    [] p = "sleep60"  -> 5
    [] p = "groq2"    -> 4
    [] p = "together" -> 3
    [] p = "log"      -> 2
    [] p = "pace"     -> 1
    [] OTHER          -> 0

\* C30: a call_llm makes at most two primary requests and one secondary
\* request, sleeps 60 s at most once and paces at most once, and every step
\* brings it nearer to its end, which is a return or a raise (or the
\* KeyboardInterrupt that stops the run).
C30_BoundedWork ==
  /\ [](/\ Len(call.groq) <= 2
        /\ Len(call.together) <= 1
        /\ Len(call.sent) <= 3
        /\ call.slept60 <= 1
        /\ call.paced <= 1
        /\ (pc = "idle" /\ call.outcome # "none") =>
             call.outcome \in {"returned", "raised", "interrupted"})
  /\ [][ Rank(pc) > 0 => Rank(pc') < Rank(pc) ]_vars

\* A call returned after three requests and one 60 s sleep.
C30_Witness ==
  /\ pc = "return"
  /\ Len(call.groq) = 2
  /\ Len(call.together) = 1
  /\ call.slept60 = 1
  /\ call.paced = 0
  /\ call.outcome = "returned"

====
